---- MODULE Spec2Model ----
(***************************************************************************)
(* Model of typedoc-d-ts: request validation (validateConfig in            *)
(* src/src/generator/types.d.ts) and manifest entry-point collection       *)
(* (class PackageJson in src/src/generator/data/PackageJson.js).           *)
(*                                                                         *)
(* Strings are sequences of tokens.  A path such as "src/index.d.ts" is    *)
(* <<"src", "/", "index", ".d", ".ts">>: separators ("/" and "\\") are     *)
(* tokens of their own and every dot-extension is one token, so that the   *)
(* suffix tests of the regular expressions, toUnix, dirname and resolve    *)
(* are computed on the text and not looked up in a table.                  *)
(*                                                                         *)
(* A JavaScript value is a record [type, s]: type is the value's kind      *)
(* ("undefined", "string", "number", "object", "array") and s the tokens   *)
(* of a string (<<>> otherwise).                                           *)
(***************************************************************************)
EXTENDS Integers, Sequences, FiniteSets, TLC

VARIABLES
    config,        \* validateConfig: the request object, normalised in place
    before,        \* validateConfig: the request object as the latest call received it
    rets,          \* validateConfig: the values returned so far, oldest first
    log,           \* Logger: the diagnostics emitted so far
    files,         \* file system: the paths that are files
    cwd,           \* process.cwd()
    packageObj,    \* PackageJson.#packageObj
    packageFilepath, \* PackageJson.#packageFilepath
    exportCondition, \* PackageJson.#exportCondition
    dirpath,       \* PackageJson.#dirpath
    exportMap,     \* PackageJson.#exportMap
    entryPoints,   \* PackageJson.#entryPoints
    pc,            \* manifest run: "new", "constructed", "failed", "done"
    generated      \* manifest run: the entry points of the configuration produced

vars == <<config, before, rets, log, files, cwd, packageObj, packageFilepath,
          exportCondition, dirpath, exportMap, entryPoints, pc, generated>>

validateVars == <<config, before, rets>>
packageVars == <<packageObj, packageFilepath, exportCondition, dirpath,
                 exportMap, entryPoints, pc, generated>>

(***************************************************************************)
(* Bounds.                                                                 *)
(***************************************************************************)
MaxPlugins == 3
MaxCalls == 2

(***************************************************************************)
(* JavaScript values and strings.                                          *)
(***************************************************************************)
Undefined == [type |-> "undefined", s |-> <<>>]
Str(tokens) == [type |-> "string", s |-> tokens]
Num == [type |-> "number", s |-> <<>>]
Obj == [type |-> "object", s |-> <<>>]
Arr == [type |-> "array", s |-> <<>>]

Last(s) == s[Len(s)]

Diag(level, msg, arg) == [level |-> level, msg |-> msg, arg |-> arg]

\* regexAllowedFiles = /\.(js|mjs|ts|mts)$/
RegexAllowedFiles(s) ==
    Len(s) >= 1 /\ Last(s) \in {".js", ".mjs", ".ts", ".mts"}

\* regexIsDTSFile = /\.d\.(cts|ts|mts)$/
RegexIsDTSFile(s) ==
    Len(s) >= 2 /\ s[Len(s) - 1] = ".d" /\ Last(s) \in {".cts", ".ts", ".mts"}

\* unixPath.endsWith('package.json')
EndsWithPackageJson(s) ==
    Len(s) >= 2 /\ s[Len(s) - 1] = "package" /\ Last(s) = ".json"

RECURSIVE KeepIndices(_, _)
KeepIndices(s, i) ==
    IF i > Len(s) THEN <<>>
    ELSE IF s[i] = "/" /\ i > 2 /\ s[i - 1] = "/"
         THEN KeepIndices(s, i + 1)
         ELSE <<s[i]>> \o KeepIndices(s, i + 1)

\* upath.toUnix: every backslash becomes a slash, then a run of slashes that
\* does not start the string collapses to one slash.
ToUnix(s) ==
    KeepIndices([i \in DOMAIN s |-> IF s[i] = "\\" THEN "/" ELSE s[i]], 1)

\* isFile of @typhonjs-utils/file-util: the value names an existing file.
IsFile(v, fs) == v.type = "string" /\ v.s \in fs

(***************************************************************************)
(* validateConfig (src/src/generator/types.d.ts).                          *)
(***************************************************************************)

\* linkPlugins values: [type, items], items the entries of an iterable.
UndefinedList == [type |-> "undefined", items |-> <<>>]
NumList == [type |-> "number", items |-> <<>>]
List(items) == [type |-> "array", items |-> items]

Range(seq) == {seq[i] : i \in DOMAIN seq}

\* linkPluginMap of ./typedoc.js: the fixed plugin registry, from the name of
\* an API link to the module identifier that backs it.
LinkPluginMap ==
    [k \in {"dom", "esm", "worker"} |->
        CASE k = "dom" -> "ts-links/dom"
          [] k = "esm" -> "ts-links/esm"
          [] k = "worker" -> "ts-links/worker"]

\* isIterable of @typhonjs-utils/object
IsIterable(v) == v.type = "array"

\* isObject of @typhonjs-utils/object: a non-null object that is no array
IsObject(v) == v.type = "object"

\* getPackageWithPath({ filepath: cwd, basepath: cwd }): the package.json of
\* the working directory itself, when there is one.
GetPackageWithPath(wd, fs) ==
    LET filepath == wd \o <<"/", "package", ".json">>
    IN [found |-> filepath \in fs, filepath |-> filepath]

Returned(ret, c, lg) == [ret |-> ret, config |-> c, log |-> lg]

Fail(c, lg, msg) == Returned(FALSE, c, Append(lg, Diag("error", msg, "")))

\* The checks of dmtNavStyle, exportCondition, output and packageName: the
\* message of the first one that fails, "" when all pass.
ScalarError(c) ==
    IF c.dmtNavStyle.type # "undefined" /\ c.dmtNavStyle # Str(<<"compact">>)
       /\ c.dmtNavStyle # Str(<<"flat">>)
    THEN "'dmtNavStyle' must be 'compact' or 'flat'."
    ELSE IF c.exportCondition.type # "string"
    THEN "'exportCondition' must be a string."
    ELSE IF c.output.type # "string"
    THEN "'output' must be a string."
    ELSE IF c.packageName.type # "undefined" /\ c.packageName.type # "string"
    THEN "'packageName' must be a string."
    ELSE ""

\* A faulty variant of PathStep that runs manifest discovery whether or not `path`
\* is set.
PathStepAlwaysDiscovers(c, fs, wd, lg) ==
    LET pkg == GetPackageWithPath(wd, fs)
    IN IF ~pkg.found
       THEN Fail(c, lg, "No 'package.json' found")
       ELSE Returned(TRUE, [c EXCEPT !.path = Str(ToUnix(pkg.filepath))], lg)

\* `if (config.path !== void 0) { ... } else { ... }`
PathStep(c, fs, wd, lg) ==
    IF c.path.type # "undefined"
    THEN IF c.path.type # "string"
         THEN Fail(c, lg, "'path' must be a string.")
         ELSE LET unixPath == ToUnix(c.path.s)
              IN IF ~IsFile(Str(unixPath), fs)
                 THEN Fail(c, lg, "'path' is not a file")
                 ELSE IF ~(RegexIsDTSFile(unixPath) \/ RegexAllowedFiles(unixPath)
                           \/ EndsWithPackageJson(unixPath))
                 THEN Fail(c, lg, "'path' is not an allowed entry point or 'package.json' file")
                 ELSE Returned(TRUE, c, lg)
    ELSE LET pkg == GetPackageWithPath(wd, fs)
         IN IF ~pkg.found
            THEN Fail(c, lg, "No 'package.json' found")
            ELSE Returned(TRUE, [c EXCEPT !.path = Str(ToUnix(pkg.filepath))], lg)

\* The checks of tsconfigPath, typedocOptions and typedocPath.
FileOptionsError(c, fs) ==
    IF c.tsconfigPath.type # "undefined" /\ ~IsFile(c.tsconfigPath, fs)
    THEN "'tsconfigPath' is not a file"
    ELSE IF c.typedocOptions.type # "undefined" /\ ~IsObject(c.typedocOptions)
    THEN "'typedocOptions' is not an object."
    ELSE IF c.typedocPath.type # "undefined" /\ ~IsFile(c.typedocPath, fs)
    THEN "'typedocPath' is not a file"
    ELSE ""

\* A faulty variant of Entries that keeps the repeated entries (an array where the
\* code builds a Set).
EntriesNoSet(items) == items

\* `new Set(Array.from(config.linkPlugins))`, in the Set's iteration order:
\* each distinct entry once, at the place of its first occurrence.
Entries(items) ==
    LET RECURSIVE Build(_, _)
        Build(i, acc) ==
            IF i > Len(items) THEN acc
            ELSE Build(i + 1, IF items[i] \in Range(acc) THEN acc
                              ELSE Append(acc, items[i]))
    IN Build(1, <<>>)

\* A faulty variant of Exclusive that tests only the first entry against the last.
ExclusiveFirstLast(entries) ==
    /\ Len(entries) >= 2
    /\ {entries[1], Last(entries)} = {"dom", "worker"}

\* `entries.has('dom') && entries.has('worker')`
Exclusive(entries) == "dom" \in Range(entries) /\ "worker" \in Range(entries)

\* A faulty variant of Plugin that pushes the entry itself.
PluginUntranslated(entry) == entry

\* `linkPluginMap.get(entry)`
Plugin(entry) == LinkPluginMap[entry]

\* `for (const entry of entries) { ... }`: the plugins pushed and the
\* diagnostics logged.
RECURSIVE Translate(_, _, _, _)
Translate(entries, i, plugins, lg) ==
    IF i > Len(entries) THEN [plugins |-> plugins, log |-> lg]
    ELSE IF entries[i] \notin DOMAIN LinkPluginMap
    THEN Translate(entries, i + 1, plugins,
                   Append(lg, Diag("warn", "Unknown API link", entries[i])))
    ELSE Translate(entries, i + 1, Append(plugins, Plugin(entries[i])),
                   Append(lg, Diag("verbose", "Adding API link plugin", entries[i])))

\* A faulty variant of LinkStep that stores the (still empty) plugin list in the
\* config before the checks.
LinkStepStoresFirst(c, lg) ==
    IF c.linkPlugins.type = "undefined" THEN Returned(TRUE, c, lg)
    ELSE IF ~IsIterable(c.linkPlugins)
    THEN Fail([c EXCEPT !.linkPlugins = List(<<>>)], lg,
              "'linkPlugins' must be an iterable list.")
    ELSE LET entries == Entries(c.linkPlugins.items)
         IN IF Exclusive(entries)
            THEN Fail([c EXCEPT !.linkPlugins = List(<<>>)], lg,
                      "You may only include either 'dom' or 'worker'")
            ELSE LET done == Translate(entries, 1, <<>>, lg)
                 IN Returned(TRUE, [c EXCEPT !.linkPlugins = List(done.plugins)],
                             done.log)

\* `if (config.linkPlugins !== void 0) { ... }`
LinkStep(c, lg) ==
    IF c.linkPlugins.type = "undefined" THEN Returned(TRUE, c, lg)
    ELSE IF ~IsIterable(c.linkPlugins)
    THEN Fail(c, lg, "'linkPlugins' must be an iterable list.")
    ELSE LET entries == Entries(c.linkPlugins.items)
         IN IF Exclusive(entries)
            THEN Fail(c, lg, "You may only include either 'dom' or 'worker'")
            ELSE LET done == Translate(entries, 1, <<>>, lg)
                 IN Returned(TRUE, [c EXCEPT !.linkPlugins = List(done.plugins)],
                             done.log)

\* validateConfig(config): the value returned, the config as the call leaves
\* it and the log.
ValidateConfig(c, fs, wd, lg) ==
    IF ScalarError(c) # "" THEN Fail(c, lg, ScalarError(c))
    ELSE LET p == PathStep(c, fs, wd, lg)
         IN IF ~p.ret THEN p
            ELSE IF FileOptionsError(p.config, fs) # ""
            THEN Fail(p.config, p.log, FileOptionsError(p.config, fs))
            ELSE LinkStep(p.config, p.log)

(***************************************************************************)
(* Paths (upath) as used by PackageJson.                                   *)
(***************************************************************************)

\* The segments of a path: the runs of tokens between its slashes.
RECURSIVE Split(_, _, _)
Split(s, i, cur) ==
    IF i > Len(s) THEN <<cur>>
    ELSE IF s[i] = "/" THEN <<cur>> \o Split(s, i + 1, <<>>)
    ELSE Split(s, i + 1, Append(cur, s[i]))

\* The segments left once "", "." and ".." are resolved.
RECURSIVE Normalize(_, _, _)
Normalize(segs, i, acc) ==
    IF i > Len(segs) THEN acc
    ELSE IF segs[i] = <<>> \/ segs[i] = <<".">> THEN Normalize(segs, i + 1, acc)
    ELSE IF segs[i] = <<"..">>
    THEN Normalize(segs, i + 1,
                   IF acc = <<>> THEN acc ELSE SubSeq(acc, 1, Len(acc) - 1))
    ELSE Normalize(segs, i + 1, Append(acc, segs[i]))

\* The absolute path of the segments: "/" before each, "/" alone for none.
RECURSIVE Join(_, _)
Join(segs, i) ==
    IF segs = <<>> THEN <<"/">>
    ELSE IF i > Len(segs) THEN <<>>
    ELSE <<"/">> \o segs[i] \o Join(segs, i + 1)

IsAbsolute(s) == Len(s) >= 1 /\ s[1] = "/"

\* upath.resolve(from, to): `to` when it is absolute, else `to` under `from`,
\* normalised.  upath converts its arguments with toUnix.
ResolveFrom(from, to) ==
    LET t == ToUnix(to)
        full == IF IsAbsolute(t) THEN t ELSE ToUnix(from) \o <<"/">> \o t
    IN Join(Normalize(Split(full, 1, <<>>), 1, <<>>), 1)

\* upath.dirname(filepath)
Dirname(s) ==
    LET u == ToUnix(s)
        slashes == {i \in DOMAIN u : u[i] = "/"}
    IN IF slashes = {} THEN <<".">>
       ELSE LET k == CHOOSE i \in slashes : \A j \in slashes : j <= i
            IN IF k = 1 THEN <<"/">> ELSE SubSeq(u, 1, k - 1)

\* isDTSFile of ../validation.js: the declaration-file filter.
IsDTSFile(s) == RegexIsDTSFile(s)

(***************************************************************************)
(* PackageJson (src/src/generator/data/PackageJson.js).                    *)
(***************************************************************************)

\* The `exports` field: absent, a string, or an object listing, per subpath
\* key, the targets of its conditions in declaration order.
NoExports == [type |-> "undefined", s |-> <<>>, tree |-> <<>>]
ExportsString(tokens) == [type |-> "string", s |-> tokens, tree |-> <<>>]
ExportsObject(tree) == [type |-> "object", s |-> <<>>, tree |-> tree]

NoExportMap == [defined |-> FALSE, entries |-> <<>>]

\* The target a subpath's conditions select: that of the first condition of
\* <<condition, "default">> that the subpath declares; <<>> when none.
Select(conds, condition) ==
    LET hits(c) == {i \in DOMAIN conds : conds[i].cond = c}
        first(c) == conds[CHOOSE i \in hits(c) : \A j \in hits(c) : i <= j].target
    IN IF hits(condition) # {} THEN first(condition)
       ELSE IF hits("default") # {} THEN first("default")
       ELSE <<>>

\* ExportMapSupport.create(packageJson): the export map of a manifest, one
\* entry per subpath that resolves under the export condition.  The map is
\* keyed by the resolved file (its keys are what #process takes as the entry
\* points), rooted at the manifest's directory.
RECURSIVE ExportEntries(_, _, _, _)
ExportEntries(tree, i, condition, dir) ==
    IF i > Len(tree) THEN <<>>
    ELSE LET target == Select(tree[i].conds, condition)
         IN (IF target = <<>> THEN <<>>
             ELSE <<[key |-> ResolveFrom(dir, target), subpath |-> tree[i].subpath]>>)
            \o ExportEntries(tree, i + 1, condition, dir)

ExportMapCreate(exports, condition, dir) ==
    IF exports.type = "string"
    THEN [defined |-> TRUE,
          entries |-> <<[key |-> ResolveFrom(dir, exports.s), subpath |-> <<".">>]>>]
    ELSE [defined |-> TRUE,
          entries |-> ExportEntries(exports.tree, 1, condition, dir)]

\* A faulty variant of HasExports that takes every `exports` that is set.
HasExportsAnyType(exports) == exports.type # "undefined"

\* `typeof packageObj.exports !== 'object'`, negated: the constructor builds
\* an export map.
HasExports(exports) == exports.type = "object"

\* A faulty variant of Fallback that adds the candidate after the warning.
FallbackWarnThenInclude(field, name, wd, lg) ==
    LET lg1 == Append(lg, Diag("verbose", "Loading entry point from package.json", name))
    IN IF ~IsDTSFile(field.s)
       THEN [entryPoints |-> {ResolveFrom(wd, ResolveFrom(wd, field.s))},
             log |-> Append(lg1, Diag("warn", "property in package.json is not a declaration file", name))]
       ELSE [entryPoints |-> {ResolveFrom(wd, ResolveFrom(wd, field.s))},
             log |-> Append(lg1, Diag("verbose", "resolvedPath", name))]

\* The body of `if (typeof this.data.types === 'string') { ... }` and of its
\* `typings` twin: path.resolve(field) resolves against the working directory.
Fallback(field, name, wd, lg) ==
    LET lg1 == Append(lg, Diag("verbose", "Loading entry point from package.json", name))
    IN IF ~IsDTSFile(field.s)
       THEN [entryPoints |-> {},
             log |-> Append(lg1, Diag("warn", "property in package.json is not a declaration file", name))]
       ELSE [entryPoints |-> {ResolveFrom(wd, ResolveFrom(wd, field.s))},
             log |-> Append(lg1, Diag("verbose", "resolvedPath", name))]

\* A faulty variant of Process that consults `typings` before `types`.
ProcessTypingsFirst(pkg, condition, emap, wd, lg) ==
    IF emap.defined /\ Len(emap.entries) > 0
    THEN [entryPoints |-> {emap.entries[i].key : i \in DOMAIN emap.entries},
          log |-> lg]
    ELSE IF condition = "types"
    THEN IF pkg.typings.type = "string" THEN Fallback(pkg.typings, "typings", wd, lg)
         ELSE IF pkg.types.type = "string" THEN Fallback(pkg.types, "types", wd, lg)
         ELSE [entryPoints |-> {}, log |-> lg]
    ELSE [entryPoints |-> {}, log |-> lg]

\* #process(): the entry points collected and the log.
Process(pkg, condition, emap, wd, lg) ==
    IF emap.defined /\ Len(emap.entries) > 0
    THEN [entryPoints |-> {emap.entries[i].key : i \in DOMAIN emap.entries},
          log |-> lg]
    ELSE IF condition = "types"
    THEN IF pkg.types.type = "string" THEN Fallback(pkg.types, "types", wd, lg)
         ELSE IF pkg.typings.type = "string" THEN Fallback(pkg.typings, "typings", wd, lg)
         ELSE [entryPoints |-> {}, log |-> lg]
    ELSE [entryPoints |-> {}, log |-> lg]

\* A faulty variant of NoEntryPoints that never fails.
NoEntryPointsIgnored(eps) == FALSE

\* The caller's test after construction: the run fails with NoEntryPoints
\* when the entry-point set is empty.
NoEntryPoints(eps) == eps = {}

(***************************************************************************)
(* Inputs.                                                                 *)
(***************************************************************************)
WorkDir == <<"/", "work">>
PkgDir == <<"/", "repo", "/", "pkg">>
OtherDir == <<"/", "other">>

ManifestOf(dir) == dir \o <<"/", "package", ".json">>

\* The files that exist besides the manifest of the working directory.
BaseFiles ==
    { <<"src", "/", "index", ".d", ".ts">>,
      <<"src", "/", "main", ".ts">>,
      <<"README", ".md">>,
      ManifestOf(PkgDir),
      <<"tsconfig", ".json">> }

PluginNames == {"dom", "esm", "worker", "foo"}

RECURSIVE SeqsUpTo(_, _)
SeqsUpTo(S, n) ==
    IF n = 0 THEN {<<>>}
    ELSE LET shorter == SeqsUpTo(S, n - 1)
         IN shorter \cup {Append(q, x) : q \in shorter, x \in S}

NavValues == {Undefined, Str(<<"compact">>), Str(<<"tree">>)}
ConditionValues == {Str(<<"types">>), Num}
OutputValues == {Str(<<"docs">>), Undefined}
PackageNameValues == {Undefined, Str(<<"pkg">>), Num}
PathValues ==
    { Undefined, Num,
      Str(<<"src", "/", "index", ".d", ".ts">>),
      Str(<<"src", "\\", "main", ".ts">>),
      Str(<<"src", "/", "missing", ".ts">>),
      Str(<<"README", ".md">>),
      Str(ManifestOf(PkgDir)) }
TsconfigValues == {Undefined, Str(<<"tsconfig", ".json">>), Str(<<"missing", ".json">>)}
TypedocOptionsValues == {Undefined, Obj, Arr}
TypedocPathValues == {Undefined, Str(<<"missing", ".json">>)}
LinkValues ==
    {UndefinedList, NumList} \cup {List(q) : q \in SeqsUpTo(PluginNames, MaxPlugins)}

Requests ==
    [dmtNavStyle : NavValues, exportCondition : ConditionValues,
     output : OutputValues, packageName : PackageNameValues, path : PathValues,
     tsconfigPath : TsconfigValues, typedocOptions : TypedocOptionsValues,
     typedocPath : TypedocPathValues, linkPlugins : LinkValues]

DefaultRequest ==
    [dmtNavStyle |-> Undefined, exportCondition |-> Str(<<"types">>),
     output |-> Str(<<"docs">>), packageName |-> Undefined, path |-> Undefined,
     tsconfigPath |-> Undefined, typedocOptions |-> Undefined,
     typedocPath |-> Undefined, linkPlugins |-> UndefinedList]

ExportsValues ==
    { NoExports,
      ExportsString(<<".", "/", "index", ".d", ".ts">>),
      ExportsObject(<<[subpath |-> <<".">>,
                       conds |-> <<[cond |-> "types", target |-> <<".", "/", "index", ".d", ".ts">>],
                                   [cond |-> "default", target |-> <<".", "/", "index", ".js">>]>>],
                      [subpath |-> <<".", "/", "sub">>,
                       conds |-> <<[cond |-> "import", target |-> <<".", "/", "sub", ".js">>]>>]>>),
      ExportsObject(<<[subpath |-> <<".", "/", "cjs">>,
                       conds |-> <<[cond |-> "require", target |-> <<".", "/", "index", ".cjs">>]>>]>>) }
TypesValues ==
    { Undefined, Num,
      Str(<<".", "/", "types", "/", "index", ".d", ".ts">>),
      Str(<<"types", "\\", "index", ".d", ".mts">>),
      Str(<<"/", "abs", "/", "index", ".d", ".ts">>),
      Str(<<"lib", "/", "index", ".js">>) }
TypingsValues ==
    { Undefined,
      Str(<<"typings", "/", "main", ".d", ".ts">>),
      Str(<<"..", "/", "shared", "/", "main", ".d", ".cts">>),
      Str(<<"types", "/", "index", ".d", ".ts">>),
      Str(<<"main", ".ts">>) }

Manifests == [exports : ExportsValues, types : TypesValues, typings : TypingsValues]

DefaultManifest == [exports |-> NoExports, types |-> Undefined, typings |-> Undefined]

NotGenerated == [produced |-> FALSE, entryPoints |-> {}]

(***************************************************************************)
(* Request validation: the state machine.                                  *)
(***************************************************************************)
InitValidate ==
    /\ config \in Requests
    /\ before = config
    /\ rets = <<>>
    /\ log = <<>>
    /\ files \in {BaseFiles, BaseFiles \cup {ManifestOf(WorkDir)}}
    /\ cwd = WorkDir
    /\ packageObj = DefaultManifest
    /\ packageFilepath = ManifestOf(WorkDir)
    /\ exportCondition = "types"
    /\ dirpath = <<>>
    /\ exportMap = NoExportMap
    /\ entryPoints = {}
    /\ pc = "new"
    /\ generated = NotGenerated

\* A call of validateConfig(config).  The caller validates again only a
\* config that the call before accepted.
Validate ==
    /\ Len(rets) < MaxCalls
    /\ \A i \in DOMAIN rets : rets[i]
    /\ LET r == ValidateConfig(config, files, cwd, log)
       IN /\ config' = r.config
          /\ before' = config
          /\ rets' = Append(rets, r.ret)
          /\ log' = r.log
    /\ UNCHANGED <<files, cwd>>
    /\ UNCHANGED packageVars

NextValidate == Validate

SpecValidate == InitValidate /\ [][NextValidate]_vars

(***************************************************************************)
(* Manifest run: the state machine.                                        *)
(***************************************************************************)
InitPackage ==
    /\ packageObj \in Manifests
    /\ packageFilepath \in {ManifestOf(WorkDir), ManifestOf(PkgDir)}
    /\ exportCondition \in {"types", "import"}
    /\ cwd \in {WorkDir, PkgDir, OtherDir}
    /\ files = BaseFiles \cup {ManifestOf(WorkDir)}
    /\ dirpath = <<>>
    /\ exportMap = NoExportMap
    /\ entryPoints = {}
    /\ pc = "new"
    /\ generated = NotGenerated
    /\ log = <<>>
    /\ config = DefaultRequest
    /\ before = DefaultRequest
    /\ rets = <<>>

\* new PackageJson(packageObj, filepath, exportCondition)
NewPackageJson ==
    /\ pc = "new"
    /\ LET dir == Dirname(packageFilepath)
           lg == IF HasExports(packageObj.exports) THEN log
                 ELSE Append(log, Diag("verbose", "No 'exports' conditions found in 'package.json'.", ""))
           emap == IF HasExports(packageObj.exports)
                   THEN ExportMapCreate(packageObj.exports, exportCondition, dir)
                   ELSE NoExportMap
           done == Process(packageObj, exportCondition, emap, cwd, lg)
       IN /\ dirpath' = dir
          /\ exportMap' = emap
          /\ entryPoints' = done.entryPoints
          /\ log' = done.log
    /\ pc' = "constructed"
    /\ UNCHANGED <<packageObj, packageFilepath, exportCondition, generated, files, cwd>>
    /\ UNCHANGED validateVars

\* The caller takes the entry points of the manifest: it fails with
\* NoEntryPoints when there are none, and else produces the configuration.
Collect ==
    /\ pc = "constructed"
    /\ IF NoEntryPoints(entryPoints)
       THEN /\ pc' = "failed"
            /\ log' = Append(log, Diag("error", "NoEntryPoints", ""))
            /\ generated' = NotGenerated
       ELSE /\ pc' = "done"
            /\ log' = log
            /\ generated' = [produced |-> TRUE, entryPoints |-> entryPoints]
    /\ UNCHANGED <<packageObj, packageFilepath, exportCondition, dirpath,
                   exportMap, entryPoints, files, cwd>>
    /\ UNCHANGED validateVars

NextPackage == NewPackageJson \/ Collect

SpecPackage == InitPackage /\ [][NextPackage]_vars

(***************************************************************************)
(* Properties of validateConfig (checked under SpecValidate).              *)
(***************************************************************************)
Called == rets # <<>>
ReturnedTrue == Last(rets)

OtherFields ==
    {"dmtNavStyle", "exportCondition", "output", "packageName",
     "tsconfigPath", "typedocOptions", "typedocPath"}

\* The request the latest call received has a valid `path`: an existing file
\* that is an allowed source or declaration file, or a package.json.
PathSetAndValid ==
    /\ before.path.type = "string"
    /\ ToUnix(before.path.s) \in files
    /\ \/ RegexIsDTSFile(ToUnix(before.path.s))
       \/ RegexAllowedFiles(ToUnix(before.path.s))
       \/ EndsWithPackageJson(ToUnix(before.path.s))

ManifestFound == ManifestOf(cwd) \in files

\* The fields checked before `path` are valid in the request received.
EarlierFieldsValid ==
    /\ before.dmtNavStyle \in {Undefined, Str(<<"compact">>), Str(<<"flat">>)}
    /\ before.exportCondition.type = "string"
    /\ before.output.type = "string"
    /\ before.packageName.type \in {"undefined", "string"}

\* tsconfigPath, typedocOptions and typedocPath are valid in the request received.
LaterFieldsValid ==
    /\ before.tsconfigPath.type = "undefined"
       \/ (before.tsconfigPath.type = "string" /\ before.tsconfigPath.s \in files)
    /\ before.typedocOptions.type \in {"undefined", "object"}
    /\ before.typedocPath.type = "undefined"
       \/ (before.typedocPath.type = "string" /\ before.typedocPath.s \in files)

PathValid == PathSetAndValid \/ (before.path.type = "undefined" /\ ManifestFound)

HasDomAndWorker ==
    /\ before.linkPlugins.type = "array"
    /\ {"dom", "worker"} \subseteq Range(before.linkPlugins.items)

LinkPluginsValid ==
    \/ before.linkPlugins.type = "undefined"
    \/ before.linkPlugins.type = "array" /\ ~HasDomAndWorker

LastIsError == log # <<>> /\ Last(log).level = "error"

\* The places of the input list that hold a registry name for the first time.
KnownFirsts(items) ==
    {i \in DOMAIN items :
        /\ items[i] \in {"dom", "esm", "worker"}
        /\ \A j \in 1..(i - 1) : items[j] # items[i]}

\* `out` lists the translations of the places `firsts` of `items`, in order.
IsTranslationOf(out, items, firsts) ==
    /\ Len(out) = Cardinality(firsts)
    /\ \A k \in DOMAIN out :
          \E i \in firsts :
             /\ Cardinality({j \in firsts : j < i}) = k - 1
             /\ out[k] = LinkPluginMap[items[i]]

\* C1 as stated: once validateConfig has returned true, a second call on the
\* resulting config returns true and leaves every field as the first call
\* left it.
C1_Idempotent ==
    (Len(rets) = 2 /\ rets[1]) => (rets[2] /\ config = before)

\* C1 as amended: the second call returns true and leaves every field other
\* than linkPlugins as the first call left it; linkPlugins, when set, comes
\* back as the empty list, the translated identifiers being no registry names.
C1_RevalidationEmptiesLinkPlugins ==
    (Len(rets) = 2 /\ rets[1]) =>
        /\ rets[2]
        /\ \A f \in OtherFields \cup {"path"} : config[f] = before[f]
        /\ before.linkPlugins.type = "undefined" => config.linkPlugins = UndefinedList
        /\ before.linkPlugins.type # "undefined" => config.linkPlugins = List(<<>>)

C1_Witness ==
    /\ Len(rets) = 2 /\ rets[1] /\ rets[2]
    /\ Len(before.linkPlugins.items) = 2
    /\ config.linkPlugins = List(<<>>)

\* C2: a request whose linkPlugins holds both 'dom' and 'worker' and whose
\* other fields are valid is rejected with an error, and its linkPlugins is
\* left untranslated, whatever else the list holds.
C2_DomWorkerRejected ==
    (Called /\ HasDomAndWorker /\ EarlierFieldsValid /\ PathValid /\ LaterFieldsValid) =>
        /\ ~ReturnedTrue
        /\ LastIsError
        /\ config.linkPlugins = before.linkPlugins

C2_Witness ==
    /\ Called /\ EarlierFieldsValid /\ PathValid /\ LaterFieldsValid
    /\ before.linkPlugins.items = <<"dom", "worker", "foo">>
    /\ ~ReturnedTrue

\* C7: with `path` set to an existing allowed file and the other fields
\* valid, the call returns true whether or not the working directory has a
\* manifest and leaves `path` as supplied; with `path` unset (and the fields
\* checked before it valid) it returns false when no manifest is found and
\* else sets `path` to the manifest found.
C7_DiscoveryIffPathUnset ==
    Called =>
        /\ (PathSetAndValid /\ EarlierFieldsValid /\ LaterFieldsValid /\ LinkPluginsValid) =>
              (ReturnedTrue /\ config.path = before.path)
        /\ (before.path.type = "undefined" /\ EarlierFieldsValid) =>
              IF ManifestFound THEN config.path = Str(ManifestOf(cwd))
              ELSE ~ReturnedTrue /\ config.path = Undefined

C7_Witness ==
    /\ Len(rets) = 1 /\ ReturnedTrue
    /\ ~ManifestFound
    /\ before.path = Str(<<"src", "\\", "main", ".ts">>)
    /\ config.path = before.path

\* C8: on success with linkPlugins set, the result is the registry
\* translation of the distinct known entries in first-occurrence order, each
\* once; every unknown entry is dropped with a warning, and no unknown entry
\* makes the call fail.
C8_TranslatedDistinctKnown ==
    (Called /\ before.linkPlugins.type = "array") =>
        /\ ReturnedTrue =>
              /\ config.linkPlugins.type = "array"
              /\ IsTranslationOf(config.linkPlugins.items, before.linkPlugins.items,
                                 KnownFirsts(before.linkPlugins.items))
              /\ Cardinality(Range(config.linkPlugins.items)) = Len(config.linkPlugins.items)
              /\ \A e \in Range(before.linkPlugins.items) \ {"dom", "esm", "worker"} :
                    Diag("warn", "Unknown API link", e) \in Range(log)
        /\ (EarlierFieldsValid /\ PathValid /\ LaterFieldsValid /\ ~HasDomAndWorker) =>
              ReturnedTrue

C8_Witness ==
    /\ Len(rets) = 1 /\ ReturnedTrue
    /\ before.linkPlugins.items = <<"esm", "foo", "esm">>
    /\ config.linkPlugins = List(<<"ts-links/esm">>)

\* C9 as stated: when validateConfig returns false, every field of the
\* request has the value it had before the call.
C9_FailureLeavesRequest ==
    (Called /\ ~ReturnedTrue) => config = before

\* C9 as amended: when validateConfig returns false, every field other than
\* `path` has the value it had before the call, and `path` has it too unless
\* it was unset and a manifest was found: then it already holds the
\* manifest's path.
C9_FailureLeavesAllButPath ==
    (Called /\ ~ReturnedTrue) =>
        /\ \A f \in OtherFields \cup {"linkPlugins"} : config[f] = before[f]
        /\ \/ config.path = before.path
           \/ /\ before.path = Undefined
              /\ ManifestFound
              /\ config.path = Str(ManifestOf(cwd))

C9_Witness ==
    /\ Called /\ ~ReturnedTrue
    /\ before.path = Undefined
    /\ config.path = Str(ManifestOf(cwd))
    /\ before.tsconfigPath = Str(<<"missing", ".json">>)

(***************************************************************************)
(* Properties of PackageJson (checked under SpecPackage).                  *)
(***************************************************************************)
Constructed == pc # "new"

IsString(v) == v.type = "string"

FallbackCase == packageObj.exports.type = "undefined" /\ exportCondition = "types"

HasWarning(name) ==
    Diag("warn", "property in package.json is not a declaration file", name) \in Range(log)

\* C3: with no exports, condition 'types', and `types` and `typings` two
\* different valid declaration paths, the entry points are exactly the
\* resolved `types` path, and the `typings` path is not among them.
C3_TypesBeforeTypings ==
    ( /\ Constructed /\ FallbackCase
      /\ IsString(packageObj.types) /\ IsDTSFile(packageObj.types.s)
      /\ IsString(packageObj.typings) /\ IsDTSFile(packageObj.typings.s)
      /\ ResolveFrom(cwd, packageObj.typings.s) # ResolveFrom(cwd, packageObj.types.s) ) =>
        /\ entryPoints = {ResolveFrom(cwd, packageObj.types.s)}
        /\ ResolveFrom(cwd, packageObj.typings.s) \notin entryPoints
        /\ packageObj.typings.s \notin entryPoints

C3_Witness ==
    /\ Constructed /\ FallbackCase
    /\ packageObj.types = Str(<<"types", "\\", "index", ".d", ".mts">>)
    /\ packageObj.typings = Str(<<"typings", "/", "main", ".d", ".ts">>)
    /\ Cardinality(entryPoints) = 1

\* C4 as stated: with no exports and condition 'types', a `types` string
\* that is no declaration file is still among the entry points, resolved.
C4_WarnThenInclude ==
    ( /\ Constructed /\ FallbackCase
      /\ IsString(packageObj.types) /\ ~IsDTSFile(packageObj.types.s) ) =>
        ResolveFrom(cwd, packageObj.types.s) \in entryPoints

\* C4 as amended: a `types` or `typings` candidate that fails the
\* declaration-file filter produces a warning and is left out: the entry-point
\* set is then empty.
C4_WarnThenExclude ==
    (Constructed /\ FallbackCase) =>
        /\ (IsString(packageObj.types) /\ ~IsDTSFile(packageObj.types.s)) =>
              (HasWarning("types") /\ entryPoints = {})
        /\ ( /\ ~IsString(packageObj.types)
             /\ IsString(packageObj.typings) /\ ~IsDTSFile(packageObj.typings.s) ) =>
              (HasWarning("typings") /\ entryPoints = {})

C4_Witness ==
    /\ Constructed /\ FallbackCase
    /\ packageObj.types = Str(<<"lib", "/", "index", ".js">>)
    /\ HasWarning("types")
    /\ entryPoints = {}

\* The entry points of the types/typings fallback, as #process takes them.
FallbackEntryPoints ==
    IF exportCondition # "types" THEN {}
    ELSE IF IsString(packageObj.types)
    THEN (IF IsDTSFile(packageObj.types.s)
          THEN {ResolveFrom(cwd, packageObj.types.s)} ELSE {})
    ELSE IF IsString(packageObj.typings)
    THEN (IF IsDTSFile(packageObj.typings.s)
          THEN {ResolveFrom(cwd, packageObj.typings.s)} ELSE {})
    ELSE {}

\* C5 as stated: a string `exports` is the '.' export: the export map has
\* that one entry and its resolved path is an entry point under every export
\* condition.
C5_StringExportsIsDotExport ==
    (Constructed /\ packageObj.exports.type = "string") =>
        /\ exportMap.defined
        /\ Len(exportMap.entries) = 1
        /\ ResolveFrom(dirpath, packageObj.exports.s) \in entryPoints

\* C5 as amended: a string `exports` is not taken as an export: no export
\* map is built, and the entry points are those of the types/typings
\* fallback (none under a condition other than 'types').
C5_StringExportsIgnored ==
    (Constructed /\ packageObj.exports.type = "string") =>
        /\ exportMap = NoExportMap
        /\ entryPoints = FallbackEntryPoints

C5_Witness ==
    /\ Constructed /\ packageObj.exports.type = "string"
    /\ exportCondition = "types"
    /\ packageObj.types = Str(<<"/", "abs", "/", "index", ".d", ".ts">>)
    /\ entryPoints = {<<"/", "abs", "/", "index", ".d", ".ts">>}
    /\ ~exportMap.defined

\* C6: a manifest with no exports, no types and no typings ends in the
\* NoEntryPoints failure; no run ends successfully with an empty entry-point
\* set, and a failed run produces no configuration.
C6_NoEntryPoints ==
    /\ ( /\ pc \in {"failed", "done"}
         /\ packageObj.exports.type = "undefined"
         /\ packageObj.types.type = "undefined"
         /\ packageObj.typings.type = "undefined" ) =>
          (pc = "failed" /\ ~generated.produced)
    /\ pc = "done" => (entryPoints # {} /\ generated.entryPoints # {})
    /\ pc = "failed" => ~generated.produced

C6_Witness ==
    /\ pc = "failed"
    /\ packageObj = DefaultManifest
    /\ Last(log) = Diag("error", "NoEntryPoints", "")

\* C10: an entry point taken from the `types` or `typings` fallback is that
\* field resolved against the manifest's own directory, whatever the working
\* directory of the process.
C10_ResolvedAgainstManifestDir ==
    (Constructed /\ ~exportMap.defined) =>
        \A e \in entryPoints :
            \/ IsString(packageObj.types) /\ e = ResolveFrom(dirpath, packageObj.types.s)
            \/ IsString(packageObj.typings) /\ e = ResolveFrom(dirpath, packageObj.typings.s)

====
